---------------------------- MODULE Spec2Model ----------------------------
(***************************************************************************)
(* Model of cidr-rs (src/src/main.rs): parsing of address lines into       *)
(* Subnet values, the range splitter, SubnetList::shrink / gap / merge,    *)
(* and the fixed-prefix expansion of main.                                 *)
(*                                                                         *)
(* The program works on u32 (IPv4) and u128 (IPv6) addresses.  The model   *)
(* keeps the arithmetic of the code but on words of BitsV4 and BitsV6 bits *)
(* (the macro common_parse_fn! is the same code for both widths).  All     *)
(* unsigned arithmetic is done modulo the word size, and the build profile *)
(* decides what an overflow does: with overflow checks (debug profile) the *)
(* program panics, without them (release profile) the value wraps and a    *)
(* shift amount is reduced modulo the width of the shifted word.           *)
(***************************************************************************)
EXTENDS Integers, Sequences, FiniteSets

VARIABLES
    overflow_checks, \* TRUE: debug profile (overflow panics); FALSE: release
    pc,              \* position of the run
    arg,             \* the input of the last operation: a record with its kind
                     \* in op ("none", "range", "flag", "line", "conf")
    list,            \* SubnetList: the set read from standard input (self.0)
    new,             \* SubnetList: the second list (exclusion file, re-parse)
    old,             \* the value of list before the last operation on it
    stdout           \* the lines printed so far

vars == <<overflow_checks, pc, arg, list, new, old, stdout>>

-----------------------------------------------------------------------------
(* Bounds of the model *)

\* width in bits of the word that stands for u32
BitsV4 == 3
\* width in bits of the word that stands for u128
BitsV6 == 2
\* number of blocks in a list of parsed blocks
MaxBlocks == 3
\* number of blocks parsed from the exclusion file
MaxExclude == 2
\* no further line is read once the list holds this many blocks
MaxRead == 1

\* u8 holds 0 .. U8 - 1 (Subnet.mask, Subnet.tag, the parsed prefix)
U8 == 256

-----------------------------------------------------------------------------
(* Fixed-width arithmetic *)

Families == {"v4", "v6"}

Bits(fam) == IF fam = "v4" THEN BitsV4 ELSE BitsV6

RECURSIVE Pow2(_)
Pow2(n) == IF n = 0 THEN 1 ELSE 2 * Pow2(n - 1)

\* $tp::MAX
MaxAddr(fam) == Pow2(Bits(fam)) - 1

Addrs(fam) == 0 .. MaxAddr(fam)

\* u8 subtraction, wrapped
U8Sub(a, b) == (a - b + U8) % U8

\* x << n and x >> n on a word of the family, the amount n a u8; without
\* overflow checks the amount is taken modulo the width
Shl(fam, x, n) == (x * Pow2(n % Bits(fam))) % Pow2(Bits(fam))

Shr(fam, x, n) == x \div Pow2(n % Bits(fam))

WrapAdd(fam, x, y) == (x + y) % Pow2(Bits(fam))

WrapSub(fam, x, y) == (x - y + Pow2(Bits(fam))) % Pow2(Bits(fam))

-----------------------------------------------------------------------------
(* Subnet *)

\* Option<T> is a set with at most one element
None == {}

Some(x) == {x}

Unwrap(o) == CHOOSE x \in o : TRUE

\* the values of arg
NoArg == [op |-> "none"]

FlagArg(flag) == [op |-> "flag", flag |-> flag]

LineArg(line) == [op |-> "line", line |-> line]

ConfArg(conf) == [op |-> "conf", conf |-> conf]

\* Subnet::new_v4 / Subnet::new_v6: net is Ok(u32) for "v4", Err(u128) for "v6"
new_ip(fam, net, mask) == [fam |-> fam, net |-> net, mask |-> mask, tag |-> 0]

\* item.tag = t when a tag is given
with_tag(item, tag) == IF tag = None THEN item ELSE [item EXCEPT !.tag = Unwrap(tag)]

\* #[derive(PartialOrd, Ord)]: net (Ok before Err, then the number), mask, tag
subnet_lt(a, b) ==
    IF a.fam # b.fam THEN a.fam = "v4"
    ELSE IF a.net # b.net THEN a.net < b.net
    ELSE IF a.mask # b.mask THEN a.mask < b.mask
    ELSE a.tag < b.tag

\* SubnetList::insert: BTreeSet::insert
insert(v, subnet) == v \cup {subnet}

\* SubnetList::iter: the elements in increasing order
RECURSIVE iter(_)
iter(v) ==
    IF v = {} THEN << >>
    ELSE LET m == CHOOSE x \in v : \A y \in v : y = x \/ subnet_lt(x, y)
         IN  <<m>> \o iter(v \ {m})

-----------------------------------------------------------------------------
(* Range splitter: parse_ipv4_range / parse_ipv6_range *)

\* halve with "mask -= 1" left out
RECURSIVE halve_keeps_mask(_, _, _)
halve_keeps_mask(from, to, mask) ==
    IF from % 2 = 0 /\ to % 2 = 1
    THEN halve_keeps_mask(from \div 2, to \div 2, mask)
    ELSE [from |-> from, to |-> to, mask |-> mask]

\* the inner loop: while from & 1 == 0 && to & 1 == 1
RECURSIVE halve(_, _, _)
halve(from, to, mask) ==
    IF from % 2 = 0 /\ to % 2 = 1
    THEN halve(from \div 2, to \div 2, U8Sub(mask, 1))
    ELSE [from |-> from, to |-> to, mask |-> mask]

\* the outer loop: while from <= to
RECURSIVE range_loop(_, _, _, _, _, _)
range_loop(fam, v, from, to, mask, tag) ==
    IF from > to THEN v
    ELSE IF from = to
    THEN LET f == IF from # 0 \/ mask > 0
                  THEN Shl(fam, from, U8Sub(Bits(fam), mask)) ELSE from
         IN  insert(v, with_tag(new_ip(fam, f, mask), tag))
    ELSE LET odd  == from % 2 = 1
             even == to % 2 = 0
             v1 == IF odd
                   THEN insert(v, with_tag(new_ip(fam,
                            Shl(fam, from, U8Sub(Bits(fam), mask)), mask), tag))
                   ELSE v
             from1 == IF odd THEN WrapAdd(fam, from, 1) ELSE from
             v2 == IF even
                   THEN insert(v1, with_tag(new_ip(fam,
                            Shl(fam, to, U8Sub(Bits(fam), mask)), mask), tag))
                   ELSE v1
             to1 == IF even THEN WrapSub(fam, to, 1) ELSE to
             h == halve(from1, to1, mask)
         IN  range_loop(fam, v2, h.from, h.to, h.mask, tag)

parse_ip_range(fam, v, from, to, tag) == range_loop(fam, v, from, to, Bits(fam), tag)

-----------------------------------------------------------------------------
(* Text.  A field of a line is [form, addr, prefix, comment]: form says     *)
(* what the address part is ("v4": dotted quad, "v6": IPv6 text, "junk":    *)
(* no address, "blank": nothing), addr is the number the address text      *)
(* denotes, prefix is the decimal number after '/' if there is a '/', and   *)
(* comment says whether a '#' comment follows.  A line is the sequence of   *)
(* its fields between ','.                                                  *)

text(form, addr, prefix, comment) ==
    [form |-> form, addr |-> addr, prefix |-> prefix, comment |-> comment]

\* Subnet::prepare_str: trim, cut the comment, trim
prepare_str(s) == [s EXCEPT !.comment = FALSE]

\* impl ToString for Subnet: "{addr}/{mask}"
to_string(subnet) == text(subnet.fam, subnet.net, Some(subnet.mask), FALSE)

\* Result<Option<Subnet>, ConfigError>
Ok(x) == [ok |-> TRUE, val |-> x]

Err == [ok |-> FALSE, val |-> None]

\* try_ipv4 / try_ipv6
try_ip(fam, s, mask) ==
    LET m == IF mask = None THEN Bits(fam) ELSE Unwrap(mask)
    IN  IF s.form # fam THEN Err
        ELSE LET mk == U8Sub(Bits(fam), m)
             IN  Ok(Some(new_ip(fam, Shl(fam, Shr(fam, s.addr, mk), mk), m)))

\* the arithmetic of try_ip that the overflow checks stop: $mp - mask below
\* zero, and a shift by the whole width
try_ip_overflows(fam, s, mask) ==
    LET m == IF mask = None THEN Bits(fam) ELSE Unwrap(mask)
    IN  s.form = fam /\ (m > Bits(fam) \/ Bits(fam) - m >= Bits(fam))

\* Subnet::parse_subnet; the prefix is parsed as a u8
parse_subnet(s0) ==
    LET s == prepare_str(s0)
    IN  IF s.form = "blank" THEN Ok(None)
        ELSE IF s.prefix # None /\ Unwrap(s.prefix) >= U8 THEN Err
        ELSE LET r == try_ip("v4", s, s.prefix)
             IN  IF r.ok THEN r ELSE try_ip("v6", s, s.prefix)

parse_subnet_overflows(s0) ==
    LET s == prepare_str(s0)
    IN  /\ s.form # "blank"
        /\ ~(s.prefix # None /\ Unwrap(s.prefix) >= U8)
        /\ \/ try_ip_overflows("v4", s, s.prefix)
           \/ ~try_ip("v4", s, s.prefix).ok /\ try_ip_overflows("v6", s, s.prefix)

\* the outcome of parsing a line into a list: the list, and where the run
\* is then: "overflow" after a panic of the overflow checks, "failed" after
\* panic!("Error")
Done(v) == [v |-> v, pc |-> "running"]

Overflow(v) == [v |-> v, pc |-> "overflow"]

Failed(v) == [v |-> v, pc |-> "failed"]

\* the arithmetic of parse_range that the overflow checks stop: that of
\* the first bound, and that of the second when the first one is a block
parse_range_overflows(line) ==
    LET f0 == prepare_str(line[1])
        f1 == prepare_str(line[2])
        from == parse_subnet(f0)
    IN  \/ parse_subnet_overflows(f0)
        \/ from.ok /\ from.val # None /\ parse_subnet_overflows(f1)

\* Subnet::parse_range: the first two fields are the bounds
parse_range(line, v, tag, checks) ==
    LET f0 == prepare_str(line[1])
        f1 == prepare_str(line[2])
        from == parse_subnet(f0)
        to == parse_subnet(f1)
    IN  IF checks /\ parse_range_overflows(line) THEN Overflow(v)
        ELSE IF ~from.ok \/ from.val = None THEN Done(v)
        ELSE IF ~to.ok \/ to.val = None THEN Done(v)
        ELSE IF Unwrap(from.val).fam # Unwrap(to.val).fam THEN Failed(v)
        ELSE Done(parse_ip_range(Unwrap(from.val).fam, v,
                                 Unwrap(from.val).net, Unwrap(to.val).net, tag))

parse_overflows(line) ==
    IF Len(line) > 1 THEN parse_range_overflows(line)
    ELSE parse_subnet_overflows(line[1])

\* Subnet::parse, its Result dropped by .ok() in read_stdin
parse(line, v, tag, checks) ==
    IF Len(line) > 1 THEN parse_range(line, v, tag, checks)
    ELSE IF checks /\ parse_overflows(line) THEN Overflow(v)
    ELSE LET r == parse_subnet(line[1])
         IN  IF r.ok /\ r.val # None
             THEN Done(insert(v, with_tag(Unwrap(r.val), tag)))
             ELSE Done(v)

-----------------------------------------------------------------------------
(* Subnet::contains, Subnet::is_next, merge_vec, SubnetList::shrink *)

contains(self, target) ==
    IF self.mask > target.mask THEN FALSE
    ELSE IF self.mask = 0 THEN TRUE
    ELSE IF self.fam = target.fam
    THEN LET n == U8Sub(Bits(self.fam), self.mask)
         IN  self.net = Shl(self.fam, Shr(self.fam, target.net, n), n)
    ELSE FALSE

is_next(self, target) ==
    IF self.mask # target.mask THEN FALSE
    ELSE IF self.fam = target.fam
    THEN LET n == U8Sub(Bits(self.fam), self.mask)
             v == Shr(self.fam, self.net, n)
         IN  v % 2 = 0 /\ v + 1 = Shr(self.fam, target.net, n)
    ELSE FALSE

Front(s) == SubSeq(s, 1, Len(s) - 1)

Last(s) == s[Len(s)]

\* merge_vec with "if let" for "while let": one merge at most
merge_vec_once(vec, i) ==
    IF vec = << >> THEN <<i>>
    ELSE LET l == Last(vec)
         IN  IF l.tag = i.tag /\ is_next(l, i)
             THEN Append(Front(vec), [l EXCEPT !.mask = U8Sub(l.mask, 1)])
             ELSE Append(vec, i)

\* while let Some(l) = vec.pop(): merge i into the top while they are siblings
RECURSIVE merge_vec(_, _)
merge_vec(vec, i) ==
    IF vec = << >> THEN <<i>>
    ELSE LET l == Last(vec)
         IN  IF l.tag = i.tag /\ is_next(l, i)
             THEN merge_vec(Front(vec), [l EXCEPT !.mask = U8Sub(l.mask, 1)])
             ELSE Append(vec, i)

\* the arithmetic of contains, is_next and merge_vec that the overflow
\* checks stop: 32 - self.mask below zero, and a shift by the whole width
contains_overflows(self, target) ==
    /\ self.mask <= target.mask
    /\ self.mask # 0
    /\ self.fam = target.fam
    /\ self.mask > Bits(self.fam)

is_next_overflows(self, target) ==
    /\ self.mask = target.mask
    /\ self.fam = target.fam
    /\ (self.mask > Bits(self.fam) \/ self.mask = 0)

RECURSIVE merge_vec_overflows(_, _)
merge_vec_overflows(vec, i) ==
    IF vec = << >> THEN FALSE
    ELSE LET l == Last(vec)
         IN  /\ l.tag = i.tag
             /\ \/ is_next_overflows(l, i)
                \/ /\ is_next(l, i)
                   /\ merge_vec_overflows(Front(vec),
                                          [l EXCEPT !.mask = U8Sub(l.mask, 1)])

\* one turn of the for loop of shrink over the sorted elements; st is
\* [vec, last, overflow], last an Option<Subnet>, overflow whether the
\* arithmetic has overflowed so far
shrink_step(st, i, merge) ==
    IF st.last # None /\ contains(Unwrap(st.last), i)
    THEN [st EXCEPT !.vec[Len(st.vec)].tag = IF merge THEN 0 ELSE 2,
                    !.overflow = @ \/ contains_overflows(Unwrap(st.last), i)]
    ELSE [vec |-> merge_vec(st.vec, i),
          last |-> Some(i),
          overflow |-> \/ st.overflow
                       \/ st.last # None /\ contains_overflows(Unwrap(st.last), i)
                       \/ merge_vec_overflows(st.vec, i)]

RECURSIVE shrink_loop(_, _, _, _)
shrink_loop(st, items, k, merge) ==
    IF k > Len(items) THEN st
    ELSE shrink_loop(shrink_step(st, items[k], merge), items, k + 1, merge)

shrink_run(v, merge) ==
    shrink_loop([vec |-> << >>, last |-> None, overflow |-> FALSE], iter(v), 1, merge)

\* SubnetList::shrink: the elements of vec with tag 0 are inserted again
shrink(v, merge) ==
    LET vec == shrink_run(v, merge).vec
    IN  {vec[k] : k \in {j \in 1 .. Len(vec) : vec[j].tag = 0}}

shrink_overflows(v, merge) == shrink_run(v, merge).overflow

-----------------------------------------------------------------------------
(* SubnetList::gap, SubnetList::merge *)

\* one turn of the for loop of gap; st is [last, out], last[fam] the lower
\* end last_v4.0 / last_v6.0 of what is not yet covered
gap_step(st, item) ==
    LET fam == item.fam
        s   == item.net
        lo  == st.last[fam]
        x   == WrapAdd(fam, s, Shl(fam, 1, U8Sub(Bits(fam), item.mask)))
    IN  [last |-> [st.last EXCEPT ![fam] = IF x > lo THEN x ELSE lo],
         out  |-> IF s > lo
                  THEN parse_ip_range(fam, st.out, lo, s - 1, None)
                  ELSE st.out]

RECURSIVE gap_loop(_, _, _)
gap_loop(st, items, k) ==
    IF k > Len(items) THEN st
    ELSE gap_loop(gap_step(st, items[k]), items, k + 1)

\* the trailing gap of a family: if last.0 < last.1
gap_tail(fam, st, out) ==
    IF st.last[fam] < MaxAddr(fam)
    THEN parse_ip_range(fam, out, st.last[fam], MaxAddr(fam), None)
    ELSE out

gap(v) ==
    LET st == gap_loop([last |-> [fam \in Families |-> 0], out |-> {}], iter(v), 1)
    IN  gap_tail("v6", st, gap_tail("v4", st, st.out))

\* the arithmetic of gap that the overflow checks of the debug profile stop:
\* 32 - item.mask below zero, 1 << 32, and s + (1 << n) beyond the word
gap_overflows(v) ==
    \E item \in v :
        \/ item.mask > Bits(item.fam)
        \/ item.mask = 0
        \/ item.net + Pow2(Bits(item.fam) - item.mask) > MaxAddr(item.fam)

\* SubnetList::merge
merge(self, other, flag) ==
    shrink(self \cup {[item EXCEPT !.tag = 1] : item \in gap(other)}, flag)

merge_overflows(self, other, flag) ==
    \/ gap_overflows(other)
    \/ shrink_overflows(self \cup {[item EXCEPT !.tag = 1] : item \in gap(other)}, flag)

-----------------------------------------------------------------------------
(* The fixed-prefix expansion of main *)

\* the body of "if prefix <= 32 && prefix > subnet.mask": count blocks of
\* prefix length prefix, printed in turn
expand(subnet, prefix) ==
    LET fam == subnet.fam
        count == Shl(fam, 1, U8Sub(prefix, subnet.mask))
    IN  [k \in 1 .. count |->
            to_string(new_ip(fam,
                WrapAdd(fam, subnet.net, Shl(fam, k - 1, U8Sub(Bits(fam), prefix))),
                prefix))]

\* what main prints for one block; conf[fam] is conf.prefix_v4 / prefix_v6
print_subnet(subnet, conf) ==
    LET prefix == conf[subnet.fam]
    IN  IF /\ prefix # None
           /\ Unwrap(prefix) <= Bits(subnet.fam)
           /\ Unwrap(prefix) > subnet.mask
        THEN expand(subnet, Unwrap(prefix))
        ELSE <<to_string(subnet)>>

\* the arithmetic of the expansion that the overflow checks stop:
\* 1 << (prefix - mask) by the whole width, net + (i << n) beyond the word
expand_overflows(subnet, conf) ==
    LET fam == subnet.fam
        prefix == conf[fam]
    IN  /\ prefix # None
        /\ Unwrap(prefix) <= Bits(fam)
        /\ Unwrap(prefix) > subnet.mask
        /\ \/ Unwrap(prefix) - subnet.mask >= Bits(fam)
           \/ subnet.net + (Pow2(Unwrap(prefix) - subnet.mask) - 1)
                  * Pow2(Bits(fam) - Unwrap(prefix)) > MaxAddr(fam)

\* the for loop of main over the first k blocks, stopped by a panic
RECURSIVE print_loop(_, _, _, _)
print_loop(items, k, conf, checks) ==
    IF k = 0 THEN [out |-> << >>, pc |-> "running"]
    ELSE LET r == print_loop(items, k - 1, conf, checks)
         IN  IF r.pc # "running" THEN r
             ELSE IF checks /\ expand_overflows(items[k], conf)
             THEN [r EXCEPT !.pc = "overflow"]
             ELSE [r EXCEPT !.out = r.out \o print_subnet(items[k], conf)]

-----------------------------------------------------------------------------
(* What a block covers: the addresses net .. net + 2^(W - mask) - 1 *)

Size(b) == Pow2(Bits(b.fam) - b.mask)

\* host bits zero and prefix length within the width
IsCanonical(b) ==
    /\ b.mask \in 0 .. Bits(b.fam)
    /\ b.net \in Addrs(b.fam)
    /\ b.net % Size(b) = 0

Covered(b) == {<<b.fam, a>> : a \in b.net .. (b.net + Size(b) - 1)}

Cover(v) == UNION {Covered(b) : b \in v}

-----------------------------------------------------------------------------
(* The range splitter alone: parse_ipv4_range(list, from, to, None) *)

InitRange ==
    /\ overflow_checks \in BOOLEAN
    /\ pc = "range"
    /\ \E fam \in Families : \E from, to \in Addrs(fam) :
          arg = [op |-> "range", fam |-> fam, from |-> from, to |-> to]
    /\ list = {}
    /\ new = {}
    /\ old = {}
    /\ stdout = << >>

SplitRange ==
    /\ pc = "range"
    /\ list' = parse_ip_range(arg.fam, list, arg.from, arg.to, None)
    /\ old' = list
    /\ pc' = "split"
    /\ UNCHANGED <<overflow_checks, arg, new, stdout>>

NextRange == SplitRange

SpecRange == InitRange /\ [][NextRange]_vars

\* C3: for every from <= to the blocks inserted by the range splitter have
\* their host bits zero, do not overlap pairwise, and cover exactly the
\* closed interval [from, to]; for from > to nothing is inserted.
RangeExact ==
    pc = "split" =>
        IF arg.from > arg.to THEN list = {}
        ELSE /\ \A b \in list : IsCanonical(b) /\ b.fam = arg.fam /\ b.tag = 0
             /\ \A b, c \in list : b # c => Covered(b) \cap Covered(c) = {}
             /\ Cover(list) = {<<arg.fam, a>> : a \in arg.from .. arg.to}

\* a split of an interval that reaches both ends of the address space and
\* takes more than one block
RangeWitness ==
    /\ pc = "split"
    /\ arg.fam = "v4"
    /\ arg.from = 1
    /\ arg.to = MaxAddr("v4")
    /\ Cardinality(list) = BitsV4

-----------------------------------------------------------------------------
(* SubnetList::shrink alone, on a list of parsed blocks *)

\* the canonical blocks of a family: every prefix length, host bits zero
Blocks(fam) ==
    {new_ip(fam, a, m) : <<a, m>> \in
        {x \in Addrs(fam) \X (0 .. Bits(fam)) : x[1] % Pow2(Bits(fam) - x[2]) = 0}}

AllBlocks == Blocks("v4") \cup Blocks("v6")

\* the lists of at most n of the blocks of B
RECURSIVE Lists(_, _)
Lists(B, n) ==
    IF n = 0 THEN {{}}
    ELSE LET S == Lists(B, n - 1)
         IN  S \cup {s \cup {b} : s \in S, b \in B}

InitShrink ==
    /\ overflow_checks \in BOOLEAN
    /\ pc = "parsed"
    /\ arg = NoArg
    /\ list \in Lists(AllBlocks, MaxBlocks)
    /\ new = {}
    /\ old = {}
    /\ stdout = << >>

\* list.shrink(merge)
Shrink ==
    /\ pc = "parsed"
    /\ \E flag \in BOOLEAN :
          /\ arg' = FlagArg(flag)
          /\ IF overflow_checks /\ shrink_overflows(list, flag)
             THEN pc' = "overflow" /\ list' = list
             ELSE pc' = "shrunk" /\ list' = shrink(list, flag)
    /\ old' = list
    /\ UNCHANGED <<overflow_checks, new, stdout>>

\* list.shrink(merge) once more, with the same flag
ShrinkAgain ==
    /\ pc = "shrunk"
    /\ IF overflow_checks /\ shrink_overflows(list, arg.flag)
       THEN pc' = "overflow" /\ list' = list
       ELSE pc' = "shrunk twice" /\ list' = shrink(list, arg.flag)
    /\ old' = list
    /\ UNCHANGED <<overflow_checks, arg, new, stdout>>

NextShrink == Shrink \/ ShrinkAgain

SpecShrink == InitShrink /\ [][NextShrink]_vars

\* C1: shrink(true) of canonical tag-0 blocks of both families covers, in
\* each family, exactly the addresses the input covers.
ShrinkKeepsCover ==
    (pc = "shrunk" /\ arg = FlagArg(TRUE)) => Cover(list) = Cover(old)

\* the four relations between two blocks, by the addresses they cover
Within(b, c) == Covered(b) \subseteq Covered(c)

Siblings(b, c) ==
    /\ b.fam = c.fam
    /\ b.mask = c.mask
    /\ b.mask > 0
    /\ b.net + Size(b) = c.net
    /\ b.net % (2 * Size(b)) = 0

\* C2: the result of shrink(true) on canonical tag-0 blocks is minimal and
\* non-overlapping: no block of it lies within another one and no two are
\* siblings; the two halves of a block give the block, and a block with
\* blocks inside it gives the block alone.
ShrinkMinimal ==
    (pc \in {"shrunk", "overflow"} /\ arg = FlagArg(TRUE)) =>
        /\ pc = "shrunk"
        /\ \A b, c \in list : b # c => ~Within(b, c) /\ ~Siblings(b, c)
        /\ \A b, c \in old :
              (old = {b, c} /\ Siblings(b, c)) =>
                  list = {new_ip(b.fam, b.net, b.mask - 1)}
        /\ \A b \in old :
              (\A c \in old : Within(c, b)) => list = {b}

\* two siblings and a block inside the upper one have become their parent
ShrinkWitness ==
    /\ pc = "shrunk"
    /\ arg = FlagArg(TRUE)
    /\ Cardinality(old) = 3
    /\ Cardinality(list) = 1
    /\ \E b, c, d \in old :
          /\ Siblings(b, c)
          /\ d \notin {b, c}
          /\ Within(d, c)
          /\ list = {new_ip(b.fam, b.net, b.mask - 1)}

\* C9: shrink(m) applied twice gives what shrink(m) gives once.
ShrinkIdempotent ==
    pc = "shrunk twice" => list = old

-----------------------------------------------------------------------------
(* SubnetList::gap on a canonical list: read_stdin with reverse *)

InitGap ==
    /\ overflow_checks \in BOOLEAN
    /\ pc = "stdin"
    /\ arg = NoArg
    /\ list \in Lists(AllBlocks, MaxBlocks)
    /\ new = {}
    /\ old = {}
    /\ stdout = << >>

\* self.shrink(true)
ShrinkStdin ==
    /\ pc = "stdin"
    /\ IF overflow_checks /\ shrink_overflows(list, TRUE)
       THEN pc' = "overflow" /\ list' = list
       ELSE pc' = "shrunk" /\ list' = shrink(list, TRUE)
    /\ old' = list
    /\ arg' = NoArg
    /\ UNCHANGED <<overflow_checks, new, stdout>>

\* let ret = self.gap(); std::mem::replace(self, ret)
Reverse ==
    /\ pc = "shrunk"
    /\ old' = list
    /\ IF overflow_checks /\ gap_overflows(list)
       THEN pc' = "overflow" /\ list' = list
       ELSE pc' = "reversed" /\ list' = gap(list)
    /\ UNCHANGED <<overflow_checks, arg, new, stdout>>

NextGap == ShrinkStdin \/ Reverse

SpecGap == InitGap /\ [][NextGap]_vars

\* every address of both families
AllAddrs == UNION {{fam} \X Addrs(fam) : fam \in Families}

CanonicalList(v) ==
    /\ \A b \in v : IsCanonical(b) /\ b.tag = 0
    /\ \A b, c \in v : b # c => Covered(b) \cap Covered(c) = {}

\* C4: gap of a canonical list covers exactly the addresses of each family
\* that no block of the list covers.
GapIsComplement ==
    (pc \in {"reversed", "overflow"} /\ CanonicalList(old)) =>
        /\ pc = "reversed"
        /\ Cover(list) = AllAddrs \ Cover(old)

-----------------------------------------------------------------------------
(* SubnetList::merge: read_stdin with an exclusion file *)

\* the base list is shrunk, the exclusion file is parsed
InitMerge ==
    /\ overflow_checks \in BOOLEAN
    /\ pc = "exclude"
    /\ arg = NoArg
    /\ list \in {shrink(l, TRUE) : l \in Lists(AllBlocks, MaxExclude)}
    /\ new \in Lists(AllBlocks, MaxExclude)
    /\ old = {}
    /\ stdout = << >>

\* new.shrink(true)
ShrinkExclude ==
    /\ pc = "exclude"
    /\ IF overflow_checks /\ shrink_overflows(new, TRUE)
       THEN pc' = "overflow" /\ new' = new
       ELSE pc' = "exclude shrunk" /\ new' = shrink(new, TRUE)
    /\ UNCHANGED <<overflow_checks, arg, list, old, stdout>>

\* self.merge(new, merge)
Merge ==
    /\ pc = "exclude shrunk"
    /\ old' = list
    /\ \E flag \in BOOLEAN :
          /\ arg' = FlagArg(flag)
          /\ IF overflow_checks /\ merge_overflows(list, new, flag)
             THEN pc' = "overflow" /\ list' = list
             ELSE pc' = "merged" /\ list' = merge(list, new, flag)
    /\ UNCHANGED <<overflow_checks, new, stdout>>

NextMerge == ShrinkExclude \/ Merge

SpecMerge == InitMerge /\ [][NextMerge]_vars

\* C5: after the merge no address that a block of the exclusion list covers
\* is covered by a block of the base list.
ExcludedIsRemoved ==
    pc = "merged" => Cover(list) \cap Cover(new) = {}

\* C6: with merge = false every base block that meets no exclusion block is
\* still in the base list after the merge.
DisjointBaseIsKept ==
    (pc = "merged" /\ arg = FlagArg(FALSE)) =>
        \A b \in old : Covered(b) \cap Cover(new) = {} => b \in list

-----------------------------------------------------------------------------
(* Parsing "a/p", printing the block and parsing what was printed *)

\* the lines "a/p" with p within the width of the family of a
CidrLines ==
    {<<text(fam, a, Some(p), FALSE)>> :
        <<fam, a, p>> \in UNION {{f} \X Addrs(f) \X (0 .. Bits(f)) : f \in Families}}

InitParse ==
    /\ overflow_checks \in BOOLEAN
    /\ pc = "text"
    /\ arg \in {LineArg(l) : l \in CidrLines}
    /\ list = {}
    /\ new = {}
    /\ old = {}
    /\ stdout = << >>

\* Subnet::parse(line, list, None)
ParseText ==
    /\ pc = "text"
    /\ LET r == parse(arg.line, list, None, overflow_checks)
       IN  /\ list' = r.v
           /\ pc' = IF r.pc = "running" THEN "parsed" ELSE r.pc
    /\ old' = list
    /\ UNCHANGED <<overflow_checks, arg, new, stdout>>

\* println!("{}", subnet.to_string()) for each block of list
PrintText ==
    /\ pc = "parsed"
    /\ stdout' = [k \in 1 .. Cardinality(list) |-> to_string(iter(list)[k])]
    /\ pc' = "printed"
    /\ UNCHANGED <<overflow_checks, arg, list, new, old>>

\* Subnet::parse(printed line, new, None)
ParseAgain ==
    /\ pc = "printed"
    /\ stdout # << >>
    /\ LET r == parse(<<stdout[1]>>, new, None, overflow_checks)
       IN  /\ new' = r.v
           /\ pc' = IF r.pc = "running" THEN "parsed again" ELSE r.pc
    /\ UNCHANGED <<overflow_checks, arg, list, old, stdout>>

NextParse == ParseText \/ PrintText \/ ParseAgain

SpecParse == InitParse /\ [][NextParse]_vars

\* C7: parsing "a/p", p within the width, gives one block with prefix
\* length p and the bits beyond the first p zero; printing it and parsing
\* the text again gives the same block.
ParseIsCanonical ==
    LET s == arg.line[1]
        p == Unwrap(s.prefix)
    IN  /\ pc # "overflow"
        /\ pc # "text" =>
              \E b \in list :
                  /\ list = {b}
                  /\ b.fam = s.form
                  /\ b.mask = p
                  /\ b.net % Pow2(Bits(b.fam) - p) = 0
        /\ pc = "parsed again" => new = list

-----------------------------------------------------------------------------
(* The program: main and read_stdin *)

\* the values of '/prefix' that lines carry: none, 0 .. W, the first one
\* beyond the width, and the first one that is no u8
Prefixes(fam) == {None} \cup {Some(p) : p \in 0 .. Bits(fam) + 1} \cup {Some(U8)}

AddrTexts(fam, prefixes, comments) ==
    {text(fam, a, p, c) : a \in Addrs(fam), p \in prefixes, c \in comments}

Junk == text("junk", 0, None, FALSE)

Blank(comment) == text("blank", 0, None, comment)

\* lines of one field: an address with or without prefix, an address with
\* a comment, a blank line, a comment, a line that is no address
SingleLines ==
    {<<s>> : s \in UNION {AddrTexts(fam, Prefixes(fam), {FALSE}) \cup
                          AddrTexts(fam, {None}, {TRUE}) : fam \in Families}
                   \cup {Junk, Blank(FALSE), Blank(TRUE)}}

\* lines "from,to": two addresses of any family, or a bound missing
RangeLines ==
    LET bounds == UNION {AddrTexts(fam, {None}, {FALSE}) : fam \in Families}
    IN  {<<f, t>> : f \in bounds, t \in bounds \cup {Blank(FALSE), Junk}}

Lines == SingleLines \cup RangeLines

\* conf.prefix_v4 and conf.prefix_v6: Option<u8>
PrefixConf ==
    [Families -> {None}] \cup
    UNION {{[f \in Families |-> IF f = fam THEN Some(p) ELSE None] :
                p \in 0 .. Bits(fam) + 1} : fam \in Families}

Init ==
    /\ overflow_checks \in BOOLEAN
    /\ pc = "stdin"
    /\ arg = NoArg
    /\ list = {}
    /\ new = {}
    /\ old = {}
    /\ stdout = << >>

\* one turn of "for line in lines": Subnet::parse(&line?, self, None).ok()
ReadLine ==
    /\ pc = "stdin"
    /\ Cardinality(list) < MaxRead
    /\ \E line \in Lines :
          LET r == parse(line, list, None, overflow_checks)
          IN  /\ arg' = LineArg(line)
              /\ list' = r.v
              /\ pc' = IF r.pc = "running" THEN "stdin" ELSE r.pc
    /\ old' = list
    /\ UNCHANGED <<overflow_checks, new, stdout>>

\* if let Some(file) = exclude: the file is opened and read
OpenExclude ==
    /\ pc = "shrunk"
    /\ pc' = "exclude"
    /\ arg' = NoArg
    /\ UNCHANGED <<overflow_checks, list, new, old, stdout>>

\* one turn of "for line in buf.lines()": Subnet::parse(line, &mut new, None).ok()
ReadExcludeLine ==
    /\ pc = "exclude"
    /\ Cardinality(new) < MaxRead
    /\ \E line \in Lines :
          LET r == parse(line, new, None, overflow_checks)
          IN  /\ new' = r.v
              /\ pc' = IF r.pc = "running" THEN "exclude" ELSE r.pc
    /\ UNCHANGED <<overflow_checks, arg, list, old, stdout>>

\* the for loop of main, with the prefix options of the configuration
PrintList ==
    /\ pc \in {"shrunk", "reversed", "merged"}
    /\ \E conf \in PrefixConf :
          LET r == print_loop(iter(list), Cardinality(list), conf, overflow_checks)
          IN  /\ arg' = ConfArg(conf)
              /\ stdout' = r.out
              /\ pc' = IF r.pc = "running" THEN "done" ELSE r.pc
    /\ UNCHANGED <<overflow_checks, list, new, old>>

Next ==
    \/ ReadLine
    \/ ShrinkStdin
    \/ Reverse
    \/ OpenExclude
    \/ ReadExcludeLine
    \/ ShrinkExclude
    \/ Merge
    \/ PrintList

Spec == Init /\ [][Next]_vars

\* a line that must be skipped: no address, a prefix that is no number of
\* a u8 or lies beyond the width of the family, or bounds with from > to
BadField(s) ==
    \/ s.form = "junk"
    \/ /\ s.form \in Families
       /\ s.prefix # None
       /\ Unwrap(s.prefix) > Bits(s.form)

Malformed(line) ==
    IF Len(line) = 1 THEN BadField(line[1])
    ELSE \/ BadField(line[1])
         \/ BadField(line[2])
         \/ /\ line[1].form \in Families
            /\ line[1].form = line[2].form
            /\ line[1].addr > line[2].addr

\* C8: a malformed line inserts no block and the reading goes on.
MalformedLineIsSkipped ==
    (arg.op = "line" /\ Malformed(arg.line)) =>
        /\ pc = "stdin"
        /\ list = old

\* C10: no shift by the width or more, and no addition or subtraction that
\* leaves the word, in parsing, in gap and in the fixed-prefix expansion.
NoOverflow ==
    /\ pc # "overflow"
    /\ arg.op = "line" => ~parse_overflows(arg.line)
    /\ pc = "reversed" => ~gap_overflows(old)
    /\ pc = "merged" => ~gap_overflows(new)
    /\ pc = "done" => \A subnet \in list : ~expand_overflows(subnet, arg.conf)

=============================================================================
